---- MODULE Spec2Model ----
(***************************************************************************)
(* Model of socketio-client/src/client.py: the single-shot client that     *)
(* builds the session (cookie header, query parameters), opens a           *)
(* socket.io connection, waits for one joinProjectResponse event, tears    *)
(* the connection down and prints the captured project metadata.           *)
(*                                                                         *)
(* The program position is pc; one action per statement of main().  The    *)
(* calls into socketIO_client (SocketIO(...), on, wait_for_callbacks,      *)
(* wait, connected, disconnect) are modelled at their call sites by what   *)
(* the library does there:                                                 *)
(*   - SocketIO(...) is called with the default wait_for_connection=True:  *)
(*     the constructor performs the handshake and retries it after a       *)
(*     connection error instead of raising;                                *)
(*   - wait_for_callbacks() is wait(for_callbacks=True): it stops as soon  *)
(*     as no acknowledgement callback is pending.  client.py never emits   *)
(*     with a callback, so the call returns before any packet is read;     *)
(*   - wait(1) reads and dispatches the packets that arrive during one     *)
(*     second (any number of them); a connection error inside wait is      *)
(*     caught, the connection is marked closed, and the next read          *)
(*     reconnects;                                                         *)
(*   - an exception raised by an event handler is not caught by wait and   *)
(*     propagates through main().                                          *)
(* Strings that are formatted are sequences of one-character strings.      *)
(***************************************************************************)
EXTENDS Integers, Sequences, FiniteSets

(* ------------------------------ bounds -------------------------------- *)
\* events the server emits over a whole run
MaxEmits == 2
\* handshake attempts over a whole run (first connection and reconnections)
MaxAttempts == 2
\* connection errors detected inside wait(1) over a whole run
MaxDrops == 1

(* --------------------------- JSON / Python values --------------------- *)
\* JSON null, which the client sees as Python None
None == [tag |-> "null", v |-> "null"]
Str(s) == [tag |-> "str", v |-> s]
Map(f) == [tag |-> "map", v |-> f]
EmptyDict == Map([k \in {} |-> None])
IsMapping(x) == x.tag = "map"

MetaA == Map([rootDoc_id |-> Str("d1")])
MetaB == Map([id |-> Str("p1"), name |-> Str("Doc")])

\* payload shapes the server may deliver with joinProjectResponse
Payloads ==
  { Map([project |-> MetaA]),
    Map([project |-> MetaB]),
    Map([project |-> None]),
    Map([project |-> Str("x")]),
    Map([other |-> Str("y")]),
    EmptyDict,
    Str("oops") }

Event(n, p) == [name |-> n, payload |-> p]
ConnectEvent == Event("connect", None)
OtherEvent == Event("otherEvent", None)
JoinEvents == { Event("joinProjectResponse", p) : p \in Payloads }

(* ------------------------------ inputs -------------------------------- *)
\* command-line values (sequences of characters)
CookieValues == { <<"a", "b">>, <<"{", "}">>, <<>> }
ProjectIds == { <<"6", "0", "f">> }
\* readings of time.time(), in milliseconds
ClockReadings == { 0, 1999 }

VARIABLES
  pc,               \* position in main()
  GCLB,             \* args.GCLB
  overleaf_session_2, \* args.overleaf_session2
  project_id,       \* args.project_id
  nowMs,            \* what time.time() returns, in milliseconds
  cookie,           \* the Cookie header value
  params,           \* the query parameters handed to SocketIO
  conn,             \* state of the connection handle
  attempts,         \* handshake attempts made so far
  ctorErrors,       \* connection errors met by the constructor's handshake
  handlers,         \* event names with a registered handler
  net,              \* events sent by the server, not yet read by the client
  connectObserved,  \* the client has dispatched the connect event
  project_infos,    \* the captured result (nonlocal of set_project_infos)
  fired,            \* number of invocations of set_project_infos
  lastPayload,      \* payload of the latest invocation of set_project_infos
  disconnects,      \* number of socket_io.disconnect() calls
  closes,           \* number of times the connection entered Closed
  drops,            \* connection errors detected inside wait(1)
  sent,             \* every event the server has emitted
  output            \* what has been printed

vars == << pc, GCLB, overleaf_session_2, project_id, nowMs, cookie, params,
           conn, attempts, ctorErrors, handlers, net, connectObserved, project_infos,
           fired, lastPayload, disconnects, closes, drops, sent, output >>

(* --------------------------- pure functions --------------------------- *)
\* the format string of client.py line 29
CookieTemplate ==
  << "G", "C", "L", "B", "=", "{", "}", ";", " ",
     "o", "v", "e", "r", "l", "e", "a", "f", "_",
     "s", "e", "s", "s", "i", "o", "n", "2", "=", "{", "}" >>

\* str.format taking its arguments in the wrong order
RECURSIVE FormatReversed(_, _)
FormatReversed(tpl, args) ==
  IF tpl = <<>> THEN <<>>
  ELSE IF Len(tpl) >= 2 /\ tpl[1] = "{" /\ tpl[2] = "}"
       THEN args[Len(args)]
            \o FormatReversed(SubSeq(tpl, 3, Len(tpl)),
                              SubSeq(args, 1, Len(args) - 1))
       ELSE <<tpl[1]>> \o FormatReversed(Tail(tpl), args)

\* str.format with automatic field numbering: each "{}" of the template is
\* replaced by the next argument; the arguments are not scanned again
RECURSIVE Format(_, _)
Format(tpl, args) ==
  IF tpl = <<>> THEN <<>>
  ELSE IF Len(tpl) >= 2 /\ tpl[1] = "{" /\ tpl[2] = "}"
       THEN Head(args) \o Format(SubSeq(tpl, 3, Len(tpl)), Tail(args))
       ELSE <<tpl[1]>> \o Format(Tail(tpl), args)

\* int(time.time()): truncation of the clock reading to whole seconds
IntTime(ms) == ms \div 1000

\* the params dictionary of lines 32-35
BuildParams(ms, pid) == [t |-> IntTime(ms), projectId |-> pid]

\* dict.get(key, default) on a mapping
DictGet(d, key, default) ==
  IF key \in DOMAIN d.v THEN d.v[key] ELSE default

\* set_project_infos raises AttributeError when the payload has no .get
HandlerRaises(payload) == ~IsMapping(payload)

\* set_project_infos written with .get("project"), without the default
set_project_infos_NoDefault(payload) == DictGet(payload, "project", None)

\* set_project_infos written with `.get("project") or {}`
set_project_infos_OrEmpty(payload) ==
  IF DictGet(payload, "project", EmptyDict) = None
  THEN EmptyDict
  ELSE DictGet(payload, "project", EmptyDict)

\* the value set_project_infos assigns to project_infos (line 27)
set_project_infos(payload) == DictGet(payload, "project", EmptyDict)

\* the loop condition inverted
LoopCondNegated(infos) == infos # None

\* a loop that is never entered
LoopCondNever(infos) == FALSE

\* a loop that also ends when the handler has been invoked at all
LoopCondUntilFired(infos) == infos = None /\ fired = 0

\* the loop condition of line 43
LoopCond(infos) == infos = None

\* a connected flag that is never set
ConnectedNever(c) == FALSE

\* a connected flag that is always set
ConnectedAlways(c) == TRUE

\* the connected test inverted
ConnectedInverted(c) == c # "Open"

\* socket_io.connected (line 46)
Connected(c) == c = "Open"

\* SocketIO(..., wait_for_connection=False)
WaitForConnectionOff == FALSE

\* SocketIO(...) is called without wait_for_connection, which defaults to
\* True (lines 31-36)
WaitForConnection == TRUE

\* an acknowledgement callback that stays pending
HasAckCallbackPending == TRUE

\* wait_for_callbacks() keeps waiting only while an acknowledgement
\* callback is pending; client.py registers none
HasAckCallback == FALSE

(* ------------------------------- Init --------------------------------- *)
Init ==
  /\ pc = "format_cookie"
  /\ GCLB \in CookieValues
  /\ overleaf_session_2 \in CookieValues
  /\ project_id \in ProjectIds
  /\ nowMs \in ClockReadings
  /\ cookie = <<>>
  /\ params = [k \in {} |-> 0]
  /\ conn = "Unconnected"
  /\ attempts = 0
  /\ ctorErrors = 0
  /\ handlers = {}
  /\ net = <<>>
  /\ connectObserved = FALSE
  /\ project_infos = None
  /\ fired = 0
  /\ lastPayload = None
  /\ disconnects = 0
  /\ closes = 0
  /\ drops = 0
  /\ sent = <<>>
  /\ output = <<>>

(* --------------------------- client actions --------------------------- *)
\* line 29
FormatCookie ==
  /\ pc = "format_cookie"
  /\ cookie' = Format(CookieTemplate, <<GCLB, overleaf_session_2>>)
  /\ pc' = "construct"
  /\ UNCHANGED << GCLB, overleaf_session_2, project_id, nowMs, params, conn,
                  attempts, ctorErrors, handlers, net, connectObserved, project_infos,
                  fired, lastPayload, disconnects, closes, drops, sent,
                  output >>

\* a constructor that reports an open connection without a handshake
ConstructSkipsHandshake ==
  /\ pc = "construct"
  /\ params' = BuildParams(nowMs, project_id)
  /\ conn' = "Open"
  /\ net' = << ConnectEvent >>
  /\ attempts' = attempts + 1
  /\ pc' = "on_connect"
  /\ UNCHANGED << GCLB, overleaf_session_2, project_id, nowMs, cookie,
                  ctorErrors, handlers, connectObserved, project_infos,
                  fired, lastPayload, disconnects, closes, drops, sent,
                  output >>

\* lines 31-36: the constructor is entered and starts the handshake
Construct ==
  /\ pc = "construct"
  /\ params' = BuildParams(nowMs, project_id)
  /\ conn' = "Handshaking"
  /\ attempts' = attempts + 1
  /\ pc' = "connecting"
  /\ UNCHANGED << GCLB, overleaf_session_2, project_id, nowMs, cookie,
                  ctorErrors, handlers, net, connectObserved, project_infos, fired,
                  lastPayload, disconnects, closes, drops, sent, output >>

\* a connection error during a handshake: with wait_for_connection=True the
\* library logs a warning and tries again; otherwise the error is raised
\* to main(), which does not catch it
HandshakeError ==
  /\ conn = "Handshaking"
  /\ attempts < MaxAttempts
  /\ ctorErrors' = IF pc = "connecting" THEN ctorErrors + 1 ELSE ctorErrors
  /\ IF WaitForConnection
     THEN attempts' = attempts + 1 /\ pc' = pc
     ELSE attempts' = attempts /\ pc' = "failed"
  /\ UNCHANGED << GCLB, overleaf_session_2, project_id, nowMs, cookie,
                  params, conn, handlers, net, connectObserved,
                  project_infos, fired, lastPayload, disconnects, closes,
                  drops, sent, output >>

\* the handshake succeeds; the server acknowledges with a connect event.
\* In the constructor this returns control to main(); inside wait(1)
\* (reconnection) the wait goes on
HandshakeOk ==
  /\ conn = "Handshaking"
  /\ conn' = "Open"
  /\ net' = << ConnectEvent >>
  /\ pc' = IF pc = "connecting" THEN "on_connect" ELSE pc
  /\ UNCHANGED << GCLB, overleaf_session_2, project_id, nowMs, cookie,
                  params, attempts, ctorErrors, handlers, connectObserved, project_infos,
                  fired, lastPayload, disconnects, closes, drops, sent,
                  output >>

\* line 38
OnConnect ==
  /\ pc = "on_connect"
  /\ handlers' = handlers \cup {"connect"}
  /\ pc' = "wait_for_callbacks"
  /\ UNCHANGED << GCLB, overleaf_session_2, project_id, nowMs, cookie,
                  params, conn, attempts, ctorErrors, net, connectObserved,
                  project_infos, fired, lastPayload, disconnects, closes,
                  drops, sent, output >>

\* line 39: returns at the first test of the stop condition
WaitForCallbacks ==
  /\ pc = "wait_for_callbacks"
  /\ ~HasAckCallback
  /\ pc' = "on_join"
  /\ UNCHANGED << GCLB, overleaf_session_2, project_id, nowMs, cookie,
                  params, conn, attempts, ctorErrors, handlers, net, connectObserved,
                  project_infos, fired, lastPayload, disconnects, closes,
                  drops, sent, output >>

\* line 41
OnJoin ==
  /\ pc = "on_join"
  /\ handlers' = handlers \cup {"joinProjectResponse"}
  /\ pc' = "loop"
  /\ UNCHANGED << GCLB, overleaf_session_2, project_id, nowMs, cookie,
                  params, conn, attempts, ctorErrors, net, connectObserved,
                  project_infos, fired, lastPayload, disconnects, closes,
                  drops, sent, output >>

\* line 43
LoopTest ==
  /\ pc = "loop"
  /\ pc' = IF LoopCond(project_infos) THEN "wait" ELSE "teardown"
  /\ UNCHANGED << GCLB, overleaf_session_2, project_id, nowMs, cookie,
                  params, conn, attempts, ctorErrors, handlers, net, connectObserved,
                  project_infos, fired, lastPayload, disconnects, closes,
                  drops, sent, output >>

\* line 44, inside wait(1): one packet is read and dispatched
Dispatch ==
  /\ pc = "wait"
  /\ conn = "Open"
  /\ net # <<>>
  /\ net' = Tail(net)
  /\ LET e == Head(net) IN
       IF e.name = "connect"
       THEN /\ connectObserved' = TRUE
            /\ UNCHANGED << pc, project_infos, fired, lastPayload >>
       ELSE IF e.name = "joinProjectResponse" /\ e.name \in handlers
       THEN /\ fired' = fired + 1
            /\ lastPayload' = e.payload
            /\ IF HandlerRaises(e.payload)
               THEN pc' = "failed" /\ UNCHANGED project_infos
               ELSE /\ project_infos' = set_project_infos(e.payload)
                    /\ pc' = pc
            /\ UNCHANGED connectObserved
       ELSE UNCHANGED << pc, connectObserved, project_infos, fired,
                         lastPayload >>
  /\ UNCHANGED << GCLB, overleaf_session_2, project_id, nowMs, cookie,
                  params, conn, attempts, ctorErrors, handlers, disconnects, closes,
                  drops, sent, output >>

\* line 44, inside wait(1): a connection error is caught by wait, which
\* marks the connection closed; unread packets are lost
ConnectionDrop ==
  /\ pc = "wait"
  /\ conn = "Open"
  /\ drops < MaxDrops
  /\ conn' = "Closed"
  /\ net' = <<>>
  /\ drops' = drops + 1
  /\ closes' = closes + 1
  /\ UNCHANGED << pc, GCLB, overleaf_session_2, project_id, nowMs, cookie,
                  params, attempts, ctorErrors, handlers, connectObserved,
                  project_infos, fired, lastPayload, disconnects, sent,
                  output >>

\* a reconnection started in the background, at any point of main()
ReconnectAnywhere ==
  /\ conn = "Closed"
  /\ attempts < MaxAttempts
  /\ conn' = "Handshaking"
  /\ attempts' = attempts + 1
  /\ UNCHANGED << pc, GCLB, overleaf_session_2, project_id, nowMs, cookie,
                  params, ctorErrors, handlers, net, connectObserved,
                  project_infos, fired, lastPayload, disconnects, closes,
                  drops, sent, output >>

\* line 44, inside wait(1): the next read on a closed connection starts a
\* new handshake
Reconnect ==
  /\ pc = "wait"
  /\ conn = "Closed"
  /\ attempts < MaxAttempts
  /\ conn' = "Handshaking"
  /\ attempts' = attempts + 1
  /\ UNCHANGED << pc, GCLB, overleaf_session_2, project_id, nowMs, cookie,
                  params, ctorErrors, handlers, net, connectObserved, project_infos,
                  fired, lastPayload, disconnects, closes, drops, sent,
                  output >>

\* line 44: the second of wait(1) is over
WaitReturn ==
  /\ pc = "wait"
  /\ conn # "Handshaking"
  /\ pc' = "loop"
  /\ UNCHANGED << GCLB, overleaf_session_2, project_id, nowMs, cookie,
                  params, conn, attempts, ctorErrors, handlers, net, connectObserved,
                  project_infos, fired, lastPayload, disconnects, closes,
                  drops, sent, output >>

\* lines 46-47
Teardown ==
  /\ pc = "teardown"
  /\ IF Connected(conn)
     THEN /\ conn' = "Closed"
          /\ net' = <<>>
          /\ disconnects' = disconnects + 1
          /\ closes' = closes + 1
     ELSE UNCHANGED << conn, net, disconnects, closes >>
  /\ pc' = "print"
  /\ UNCHANGED << GCLB, overleaf_session_2, project_id, nowMs, cookie,
                  params, attempts, ctorErrors, handlers, connectObserved,
                  project_infos, fired, lastPayload, drops, sent, output >>

\* line 49
PrintInfos ==
  /\ pc = "print"
  /\ output' = Append(output, project_infos)
  /\ pc' = "done"
  /\ UNCHANGED << GCLB, overleaf_session_2, project_id, nowMs, cookie,
                  params, conn, attempts, ctorErrors, handlers, net, connectObserved,
                  project_infos, fired, lastPayload, disconnects, closes,
                  drops, sent >>

(* --------------------------- server actions --------------------------- *)
\* the server emits an event on the open connection
ServerEmit ==
  /\ conn = "Open"
  /\ pc \notin {"done", "failed"}
  /\ Len(sent) < MaxEmits
  /\ \E e \in JoinEvents \cup {OtherEvent} :
       /\ net' = Append(net, e)
       /\ sent' = Append(sent, e)
  /\ UNCHANGED << pc, GCLB, overleaf_session_2, project_id, nowMs, cookie,
                  params, conn, attempts, ctorErrors, handlers, connectObserved,
                  project_infos, fired, lastPayload, disconnects, closes,
                  drops, output >>

ClientStep ==
  \/ FormatCookie
  \/ Construct
  \/ OnConnect
  \/ WaitForCallbacks
  \/ OnJoin
  \/ LoopTest
  \/ WaitReturn
  \/ Teardown
  \/ PrintInfos

Next ==
  \/ FormatCookie
  \/ Construct
  \/ HandshakeError
  \/ HandshakeOk
  \/ OnConnect
  \/ WaitForCallbacks
  \/ OnJoin
  \/ LoopTest
  \/ Dispatch
  \/ ConnectionDrop
  \/ Reconnect
  \/ WaitReturn
  \/ Teardown
  \/ PrintInfos
  \/ ServerEmit

Spec == Init /\ [][Next]_vars

\* The statements of main() run to completion, a handshake in progress
\* completes, wait(1) reconnects a closed connection, and a packet that has arrived is read by one of the wait(1)
\* calls of the loop (strong fairness: the loop leaves and re-enters wait).
FairSpec ==
  /\ Spec
  /\ WF_vars(ClientStep)
  /\ WF_vars(HandshakeOk)
  /\ WF_vars(Reconnect)
  /\ SF_vars(Dispatch)

TypeOK ==
  /\ pc \in {"format_cookie", "construct", "connecting", "on_connect",
             "wait_for_callbacks", "on_join", "loop", "wait", "teardown",
             "print", "done", "failed"}
  /\ conn \in {"Unconnected", "Handshaking", "Open", "Closed"}
  /\ attempts \in 0..MaxAttempts
  /\ ctorErrors \in 0..MaxAttempts
  /\ handlers \subseteq {"connect", "joinProjectResponse"}
  /\ fired \in 0..MaxEmits
  /\ drops \in 0..MaxDrops
  /\ Len(sent) <= MaxEmits

(* ------------------------------ properties ---------------------------- *)
JoinHandlerArmed == "joinProjectResponse" \in handlers

\* the joinProjectResponse events the server has emitted so far
JoinSent == SelectSeq(sent, LAMBDA e : e.name = "joinProjectResponse")

\* C1: whenever the handler has last been invoked with a payload that is a
\* mapping, the captured result is the value at key "project" of that
\* payload, or the empty mapping when the payload has no such key, and what
\* is printed is that captured result.
C1_ExtractionRule ==
  (fired > 0 /\ IsMapping(lastPayload)) =>
    /\ project_infos = IF "project" \in DOMAIN lastPayload.v
                       THEN lastPayload.v["project"]
                       ELSE EmptyDict
    /\ output # <<>> => output = << project_infos >>

C1_Witness ==
  /\ fired > 0
  /\ IsMapping(lastPayload)
  /\ "project" \notin DOMAIN lastPayload.v
  /\ output = << EmptyDict >>

\* C2: the handler fires exactly once: never a second time, and the wait
\* loop is not left before the first firing.
C2_FiresExactlyOnce ==
  /\ fired <= 1
  /\ pc \in {"teardown", "print", "done"} => fired = 1

\* C3: for every payload shape, extraction does not raise and the captured
\* result is a mapping.
C3_ExtractionTotal ==
  fired > 0 => (pc # "failed" /\ IsMapping(project_infos))

\* C4: no step after the connection stage (handler registration, wait loop,
\* teardown, print) is taken in a state where the connect event has not been
\* observed by the client.
C4_ConnectObservedFirst ==
  pc \in {"on_join", "loop", "wait", "teardown", "print", "done", "failed"}
    => connectObserved

\* C5: disconnect is issued at most once, and only in a state where the
\* captured result is non-null, that is, never while the request is pending.
C5_DisconnectOnceWithResult ==
  [][disconnects' # disconnects =>
       /\ disconnects = 0
       /\ disconnects' = 1
       /\ project_infos # None
       /\ ~(JoinHandlerArmed /\ project_infos = None)]_vars

C5_Witness == disconnects = 1 /\ pc = "print" /\ project_infos # None

\* the end-to-end scenario: no connection error, and the server has emitted
\* exactly one joinProjectResponse, with payload {project: M}, M a mapping
C6_Scenario ==
  /\ drops = 0
  /\ Len(JoinSent) = 1
  /\ IsMapping(JoinSent[1].payload)
  /\ "project" \in DOMAIN JoinSent[1].payload.v
  /\ IsMapping(JoinSent[1].payload.v["project"])

C6_M == JoinSent[1].payload.v["project"]

\* C6 as stated: in the end-to-end scenario the printed output is exactly M
\* and the connection is closed exactly once, after the output has been
\* produced.
C6_ClosedAfterOutput ==
  C6_Scenario =>
    /\ pc = "done" => (output = << C6_M >> /\ closes = 1)
    /\ closes >= 1 => output # <<>>

\* C6 amended: in the end-to-end scenario the printed output is exactly M
\* and the connection is closed exactly once, by the client's disconnect,
\* after the result has been captured and before the output is produced.
C6_ClosedBeforeOutput ==
  C6_Scenario =>
    /\ pc = "done" => (output = << C6_M >> /\ closes = 1 /\ disconnects = 1)
    /\ closes >= 1 => project_infos = C6_M
    /\ output # <<>> => (closes = 1 /\ conn = "Closed")

C6_Witness ==
  /\ C6_Scenario
  /\ pc = "done"
  /\ output = << MetaA >>
  /\ closes = 1
  /\ conn = "Closed"

\* C7: as long as no joinProjectResponse has been dispatched to the handler
\* the invocation has not printed, has not disconnected and has not ended,
\* and once in the wait loop it stays there: no step other than a dispatch
\* to the handler leads out of the waiting state.
C7_BlocksWithoutEvent ==
  /\ [](fired = 0 =>
          /\ pc \notin {"teardown", "print", "done", "failed"}
          /\ output = <<>>
          /\ disconnects = 0)
  /\ [][(pc \in {"loop", "wait"} /\ fired' = fired /\ project_infos = None)
          => pc' \in {"loop", "wait"}]_vars

C7_Witness ==
  /\ pc = "wait"
  /\ fired = 0
  /\ connectObserved
  /\ net = <<>>
  /\ Len(sent) >= 1

JoinInFlight ==
  conn = "Open" /\ \E i \in 1..Len(net) : net[i].name = "joinProjectResponse"

Completed ==
  /\ pc = "done"
  /\ project_infos # None
  /\ output = << project_infos >>
  /\ conn = "Closed"

\* C8: under fair dispatching, on a connection that stays established, once
\* the server has a joinProjectResponse in flight the invocation eventually
\* captures a result, tears down, prints the result and terminates.
C8_EventuallyCompletes ==
  [](drops = 0) => (JoinInFlight ~> Completed)

CookiePrefix == << "G", "C", "L", "B", "=" >>
CookieMiddle ==
  << ";", " ", "o", "v", "e", "r", "l", "e", "a", "f", "_",
     "s", "e", "s", "s", "i", "o", "n", "2", "=" >>

\* C10: for all cookie values v1, v2 and project id p, taken as they are,
\* the cookie header is "GCLB=" v1 "; overleaf_session2=" v2 and the query
\* parameters have exactly the keys t, the clock reading truncated to whole
\* seconds, and projectId = p.
C10_SessionBuilder ==
  /\ pc # "format_cookie" =>
       cookie = CookiePrefix \o GCLB \o CookieMiddle \o overleaf_session_2
  /\ pc \notin {"format_cookie", "construct"} =>
       /\ DOMAIN params = {"t", "projectId"}
       /\ params.projectId = project_id
       /\ params.t \in Nat
       /\ params.t * 1000 <= nowMs
       /\ nowMs < (params.t + 1) * 1000

C10_Witness ==
  /\ pc = "connecting"
  /\ GCLB = << "{", "}" >>
  /\ overleaf_session_2 = << "a", "b" >>
  /\ nowMs = 1999
  /\ params.t = 1

\* C11: the joinProjectResponse handler is registered only after connect
\* has been observed, and the event loop never dispatches a
\* joinProjectResponse event while the handler is not registered.
C11_NoDeliverBeforeArmed ==
  /\ [](JoinHandlerArmed => connectObserved)
  /\ [][(net # <<>> /\ net' = Tail(net) /\ conn' = conn
         /\ Head(net).name = "joinProjectResponse") => JoinHandlerArmed]_vars

\* the request is pending: the handler is registered and no result is held
PendingRequest == JoinHandlerArmed /\ project_infos = None

ConnChanges == conn' # conn

C15_TeardownNoOpWhenClosed ==
  /\ [][(pc = "teardown" /\ conn = "Closed") =>
          /\ pc' = "print"
          /\ disconnects' = disconnects
          /\ closes' = closes
          /\ conn' = conn
          /\ project_infos' = project_infos]_vars
  /\ []((pc = "done" /\ disconnects = 0) =>
          (conn = "Closed" /\ output = << project_infos >>))

C15_Witness ==
  /\ pc = "done"
  /\ disconnects = 0
  /\ drops >= 1
  /\ conn = "Closed"
  /\ output = << project_infos >>

\* C16: once the captured result is non-null, no later step changes it.
C16_SingleAssignment ==
  [][project_infos # None => project_infos' = project_infos]_vars

\* C17: when the server's connect event is available at once, the
\* connection stage (constructor, on('connect'), wait_for_callbacks())
\* completes after at most one dispatch of the event loop: up to the
\* registration of the joinProjectResponse handler no event has been
\* dispatched at all, and wait_for_callbacks() can always return.
C17_ConnectionStageBounded ==
  /\ pc \in {"on_connect", "wait_for_callbacks", "on_join"} =>
       /\ conn = "Open"
       /\ net = << ConnectEvent >> \o sent
       /\ fired = 0
  /\ pc = "wait_for_callbacks" => ENABLED WaitForCallbacks

C17_Witness ==
  /\ pc = "on_join"
  /\ net = << ConnectEvent >>
  /\ "connect" \in handlers

\* a payload whose project value is null
NullProjectPayload == Map([project |-> None])

\* C18: print is reached only with a non-null captured result, and a
\* joinProjectResponse whose project value is null leaves the captured
\* result null and the client in the waiting state.
C18_OutputOnlyWithResult ==
  /\ [](pc \in {"teardown", "print", "done"} => project_infos # None)
  /\ [](output # <<>> => output[1] # None)
  /\ [][(fired' = fired + 1 /\ lastPayload' = NullProjectPayload) =>
          (project_infos' = None /\ pc' = "wait")]_vars
  /\ []((fired > 0 /\ lastPayload = NullProjectPayload) =>
          (project_infos = None /\ pc \in {"loop", "wait"}))

C18_Witness ==
  /\ fired > 0
  /\ lastPayload = NullProjectPayload
  /\ project_infos = None
  /\ pc = "wait"
  /\ net = <<>>

\* C19: whenever the print step has been reached, the connection is not
\* Open.
C19_NoOpenConnectionAtPrint ==
  pc \in {"print", "done"} => conn # "Open"

C19_Witness ==
  /\ pc = "print"
  /\ conn = "Closed"
  /\ disconnects = 1
  /\ output = <<>>
====
